---------------------------- MODULE Spec2Model ----------------------------
(***************************************************************************)
(* A model of the lossless codecs of maarif-khan/file-compressor:          *)
(*   - run-length coding    RLE (include/rle.hpp), RLECompressor (main.cpp)*)
(*   - Huffman coding       Huffman (include/huffman.hpp),                 *)
(*                          HuffmanCompressor and the container written    *)
(*                          and parsed by main (main.cpp)                  *)
(*   - LZW coding           LZW (include/lzw.hpp), LZWCompressor (main.cpp)*)
(*                                                                         *)
(* A byte is a number in 0..255, a buffer a sequence of bytes.  Every      *)
(* codec run is a behaviour: Init draws the implementation and the input,  *)
(* the actions apply the codec's functions in the order main calls them.   *)
(* One specification per codec keeps the state spaces apart.               *)
(***************************************************************************)
EXTENDS Integers, Sequences, FiniteSets, TLC

VARIABLES
    cls,            \* the implementation under run (the C++ class or branch)
    pc,             \* position of the run
    data,           \* the input buffer
    compressed,     \* output of compress (bytes, or 16-bit codes for LZWCompressor)
    decompressed,   \* output of decompress
    status,         \* "ok" | "error" (reported, exit code 1) | "fault" (a crash)
    what,           \* the message of the reported error, "" if none
    ub,             \* TRUE once the run has executed undefined behaviour
    oob,            \* TRUE once a byte beyond the end of a buffer has been read
    pq,             \* Huffman: the priority queue of nodes while the tree is built
    root,           \* Huffman: the tree compress returned / the container held
    codes,          \* Huffman: the code table of the run
    raw,            \* Huffman: the container file
    intree,         \* Huffman: the tree handed to the tree serializer
    orig_bits,      \* Huffman: the bit count handed to a direct call of decompress
    W,              \* LZW: the number of bits of a byte (8 in the program)
    dictionary,     \* LZW: the dictionary of the running compress or decompress
    next_code,      \* LZW: next_code (dict_size in class LZW)
    current,        \* LZW: current of compress; previous (current in class LZW) of decompress
    idx,            \* LZW: index (from 1) of the next byte or code the loop reads
    lzwcodes,       \* LZW: class LZW's vector of codes (result in compress, codes in decompress)
    branch          \* LZW: how decompress resolved the last code: "known" | "next" | "invalid"

vars == <<cls, pc, data, compressed, decompressed, status, what, ub, oob,
          pq, root, codes, raw, orig_bits, intree,
          W, dictionary, next_code, current, idx, lzwcodes, branch>>

huffVars == <<pq, root, codes, raw, orig_bits, intree>>
faultVars == <<what, ub, oob>>
lzwVars == <<W, dictionary, next_code, current, idx, lzwcodes, branch>>

\* the variables of a codec that does not run keep these values
NoHuffman == pq = {} /\ root = <<>> /\ codes = <<>> /\ raw = <<>> /\ orig_bits = 0
             /\ intree = <<>>
NoLZW ==
    /\ W = 8 /\ dictionary = <<>> /\ next_code = 0 /\ current = <<>>
    /\ idx = 0 /\ lzwcodes = <<>> /\ branch = ""

-----------------------------------------------------------------------------
(* Helpers on sequences.                                                    *)

\* n copies of v  (std::vector<uint8_t>(n, v); a count-controlled push_back loop)
Rep(n, v) == [k \in 1..n |-> v]

\* all sequences over S of length at most n
RECURSIVE SeqsUpTo(_, _)
SeqsUpTo(S, n) ==
    IF n = 0 THEN {<<>>}
    ELSE LET shorter == SeqsUpTo(S, n - 1)
         IN  shorter \cup {Append(s, x) : s \in {t \in shorter : Len(t) = n - 1}, x \in S}

-----------------------------------------------------------------------------
(* Run-length coding.                                                       *)

\* the largest count one pair carries (count < 255 in both compressors);
\* RLEMaxCount_off is the limit a `count <= 255` test would give
RLEMaxCount_off == 255 + 1
RLEMaxCount == 255

\* static_cast<uint8_t>(count)
U8(n) == n % 256

\* RLE::compress, the inner while: count grows from 1 while the next byte
\* continues the run starting at i (1-based) and count < 255; the result is the
\* first count at which the loop condition fails
RLE_continues(d, i, count) ==
    i + count <= Len(d) /\ d[i + count] = d[i] /\ count < RLEMaxCount

RLE_count(d, i) ==
    CHOOSE count \in 1..RLEMaxCount :
        /\ ~RLE_continues(d, i, count)
        /\ \A c \in 1..(count - 1) : RLE_continues(d, i, c)

\* RLE::compress, the outer for loop from index i on
RECURSIVE RLE_compress_loop(_, _, _)
RLE_compress_loop(d, i, out) ==
    IF i > Len(d) THEN out
    ELSE LET count == RLE_count(d, i)
         IN  RLE_compress_loop(d, i + count, out \o <<U8(count), d[i]>>)

RLE_compress(d) == IF d = <<>> THEN <<>> ELSE RLE_compress_loop(d, 1, <<>>)

\* a slip in the else branch: the finished run's pair is never written
RLECompressor_compress_body_drop(d, s, i) ==
    IF d[i] = s.current /\ s.count < RLEMaxCount
    THEN [s EXCEPT !.count = U8(s.count + 1)]
    ELSE [current |-> d[i], count |-> 1, out |-> s.out]

\* RLECompressor::compress, one iteration of the for loop at index i on the
\* loop state s = [current, count, out]; count is a uint8_t
RLECompressor_compress_body(d, s, i) ==
    IF d[i] = s.current /\ s.count < RLEMaxCount
    THEN [s EXCEPT !.count = U8(s.count + 1)]
    ELSE [current |-> d[i], count |-> 1, out |-> s.out \o <<s.count, s.current>>]

\* RLECompressor::compress, the iterations lo..hi in order (the range is halved
\* to keep the evaluation shallow; the iterations run left to right)
RECURSIVE RLECompressor_compress_loop(_, _, _, _)
RLECompressor_compress_loop(d, s, lo, hi) ==
    IF lo > hi THEN s
    ELSE IF lo = hi THEN RLECompressor_compress_body(d, s, lo)
    ELSE LET mid == (lo + hi) \div 2
         IN  CHOOSE r \in {RLECompressor_compress_loop(d, half, mid + 1, hi) :
                              half \in {RLECompressor_compress_loop(d, s, lo, mid)}} : TRUE

RLECompressor_compress(d) ==
    IF d = <<>> THEN <<>>
    ELSE LET s == RLECompressor_compress_loop(d,
                      [current |-> d[1], count |-> 1, out |-> <<>>], 2, Len(d))
         IN  s.out \o <<s.count, s.current>>

\* RLE::decompress: pairs are read while i + 1 < size, a lone last byte breaks the loop
RECURSIVE RLE_decompress_loop(_, _, _)
RECURSIVE RLE_decompress_loop_lone(_, _, _)
RLE_decompress_loop_lone(d, i, out) ==
    IF i > Len(d) THEN out
    ELSE IF i + 1 > Len(d) THEN Append(out, d[i])
    ELSE RLE_decompress_loop_lone(d, i + 2, out \o Rep(d[i], d[i + 1]))

RLE_decompress_loop(d, i, out) ==
    IF i > Len(d) THEN out
    ELSE IF i + 1 > Len(d) THEN out
    ELSE RLE_decompress_loop(d, i + 2, out \o Rep(d[i], d[i + 1]))

RLE_decompress(d) == RLE_decompress_loop(d, 1, <<>>)

\* RLECompressor::decompress: the pair is expanded only if i + 1 < size
RECURSIVE RLECompressor_decompress_loop(_, _, _)
RLECompressor_decompress_loop(d, i, out) ==
    IF i > Len(d) THEN out
    ELSE RLECompressor_decompress_loop(d, i + 2,
            IF i + 1 <= Len(d) THEN out \o Rep(d[i], d[i + 1]) ELSE out)

RLECompressor_decompress(d) == RLECompressor_decompress_loop(d, 1, <<>>)

(* The inputs of the run-length runs: up to MaxRuns blocks of equal bytes,  *)
(* the block lengths chosen around the count limit.                         *)
MaxRuns == 2
RunValues == {170, 65}
RunLens == {1, 2, 255, 256, 300}

RECURSIVE RunBlocks(_)
RunBlocks(k) ==
    IF k = 0 THEN {<<>>}
    ELSE LET shorter == RunBlocks(k - 1)
         IN  shorter \cup {s \o Rep(n, v) : s \in shorter, n \in RunLens, v \in RunValues}

RLEInputs == RunBlocks(MaxRuns)

RLEClasses == {"RLE", "RLECompressor"}

InitRLE ==
    /\ cls \in RLEClasses
    /\ pc = "start"
    /\ data \in RLEInputs
    /\ compressed = <<>>
    /\ decompressed = <<>>
    /\ status = "ok"
    /\ what = ""
    /\ ub = FALSE
    /\ oob = FALSE
    /\ NoHuffman
    /\ NoLZW

\* main, algorithm "rle", compression (and the same call on class RLE)
RLECompress ==
    /\ cls \in RLEClasses
    /\ pc = "start"
    /\ compressed' = IF cls = "RLE" THEN RLE_compress(data) ELSE RLECompressor_compress(data)
    /\ pc' = "compressed"
    /\ UNCHANGED <<cls, data, decompressed, status, faultVars, huffVars, lzwVars>>

\* main, algorithm "rle", decompression of the stream compress wrote
RLEDecompress ==
    /\ cls \in RLEClasses
    /\ pc = "compressed"
    /\ decompressed' = IF cls = "RLE" THEN RLE_decompress(compressed)
                       ELSE RLECompressor_decompress(compressed)
    /\ pc' = "done"
    /\ UNCHANGED <<cls, data, compressed, status, faultVars, huffVars, lzwVars>>

NextRLE == RLECompress \/ RLEDecompress

SpecRLE == InitRLE /\ [][NextRLE]_vars

(* Runs of decompress on streams that need not come from compress: every    *)
(* stream of at most MaxRLEStream bytes, of even and of odd length.         *)
MaxRLEStream == 3
RLEStreamBytes == {0, 2, 65}

InitRLEStream ==
    /\ cls \in RLEClasses
    /\ pc = "compressed"
    /\ data = <<>>
    /\ compressed \in SeqsUpTo(RLEStreamBytes, MaxRLEStream)
    /\ decompressed = <<>>
    /\ status = "ok"
    /\ what = ""
    /\ ub = FALSE
    /\ oob = FALSE
    /\ NoHuffman
    /\ NoLZW

NextRLEStream == RLEDecompress

SpecRLEStream == InitRLEStream /\ [][NextRLEStream]_vars

-----------------------------------------------------------------------------
(* Huffman coding: the tree.                                                *)

\* a null std::shared_ptr<HuffmanNode>
Null == [null |-> TRUE]

\* HuffmanNode(uint8_t d, int freq) and HuffmanNode(int freq): both leave the
\* children null
LeafNode(d, freq) == [data |-> d, frequency |-> freq, left |-> Null, right |-> Null]
InnerNode(freq) == [data |-> 0, frequency |-> freq, left |-> Null, right |-> Null]

\* !node->left && !node->right
IsLeaf(node) == node.left = Null /\ node.right = Null

\* the frequency table: the bytes present, each with its number of occurrences
Frequency(d) ==
    [b \in {d[i] : i \in 1..Len(d)} |-> Cardinality({i \in 1..Len(d) : d[i] = b})]

\* struct Compare: the ordering handed to std::priority_queue
Compare_reversed(a, b) == a.frequency < b.frequency
Compare(a, b) == a.frequency > b.frequency

\* pq.top(): an element that Compare orders before no other one, that is, one
\* of least frequency; which of several the queue yields is left open by the
\* library, so every such element is a possible top
Tops(q) == {x \in q : \A y \in q : ~Compare(x, y)}

\* the merged node of one loop iteration of compress
Merged(l, r) == [InnerNode(l.frequency + r.frequency) EXCEPT !.left = l, !.right = r]

\* generateCodes: the table of the subtree under node, reached by the bits in
\* code ("0" is the bit 0, "1" the bit 1); a later assignment to the same byte
\* replaces an earlier one
RECURSIVE generateCodes(_, _)
generateCodes(node, code) ==
    IF node = Null THEN <<>>
    ELSE IF IsLeaf(node) THEN (node.data :> (IF code = <<>> THEN <<0>> ELSE code))
    ELSE LET l == generateCodes(node.left, Append(code, 0))
             r == generateCodes(node.right, Append(code, 1))
         IN  [b \in (DOMAIN l) \cup (DOMAIN r) |-> IF b \in DOMAIN r THEN r[b] ELSE l[b]]

\* codes[byte] of std::unordered_map: an absent byte yields the empty string
CodeOf(table, b) == IF b \in DOMAIN table THEN table[b] ELSE <<>>

\* encoded: the codes of the bytes of d one after another
RECURSIVE Encoded(_, _)
Encoded(table, d) ==
    IF d = <<>> THEN <<>> ELSE CodeOf(table, Head(d)) \o Encoded(table, Tail(d))

\* std::stoi(byte_str, 0, 2) of eight bits, the first bit the most significant
ByteOfBits_lsb(bits) ==
    bits[8] * 128 + bits[7] * 64 + bits[6] * 32 + bits[5] * 16
        + bits[4] * 8 + bits[3] * 4 + bits[2] * 2 + bits[1]
ByteOfBits(bits) ==
    bits[1] * 128 + bits[2] * 64 + bits[3] * 32 + bits[4] * 16
        + bits[5] * 8 + bits[6] * 4 + bits[7] * 2 + bits[8]

\* the packing loop of compress: encoded.substr(i, 8), padded with "0" to 8 bits
PackBits(encoded) ==
    [j \in 1..((Len(encoded) + 7) \div 8) |->
        ByteOfBits([k \in 1..8 |->
            IF 8 * (j - 1) + k <= Len(encoded) THEN encoded[8 * (j - 1) + k] ELSE 0])]

\* std::bitset<8>(byte).to_string() for every byte, one after another
BitString(bytes) ==
    [n \in 1..(8 * Len(bytes)) |->
        (bytes[((n - 1) \div 8) + 1] \div (2 ^ (7 - ((n - 1) % 8)))) % 2]

-----------------------------------------------------------------------------
(* size_t values are 64 bits wide: a size is kept as its 8 bytes in memory  *)
(* order (least significant first), as memcpy writes it into the header.    *)

\* the size_t of a number below 2^31
SizeT(n) ==
    <<n % 256, (n \div 256) % 256, (n \div 65536) % 256, (n \div 16777216) % 256,
      0, 0, 0, 0>>

\* a + b modulo 2^64, byte by byte with carry
RECURSIVE SizeAddFrom(_, _, _, _)
SizeAddFrom(a, b, k, carry) ==
    IF k > 8 THEN <<>>
    ELSE LET sum == a[k] + b[k] + carry
         IN  <<sum % 256>> \o SizeAddFrom(a, b, k + 1, sum \div 256)

SizeAdd(a, b) == SizeAddFrom(a, b, 1, 0)

\* TRUE if the size is 2^24 or more (no buffer of the model is that long)
SizeIsHuge(a) == \E k \in 4..8 : a[k] # 0

\* the number a size below 2^24 stands for
SizeLow(a) == a[1] + 256 * a[2] + 65536 * a[3]

\* a < n, a >= n, a > 0 for a size a and a small number n
SizeLess(a, n) == ~SizeIsHuge(a) /\ SizeLow(a) < n
SizeGeq(a, n) == ~SizeLess(a, n)
SizePositive(a) == \E k \in 1..8 : a[k] # 0

-----------------------------------------------------------------------------
(* Huffman coding: decompress, and the container of main.                   *)

\* decompress, one iteration of the loop over bit_string on the loop state
\* s = [current, out, ub]: the child is taken, then its own children are read
\* to see whether it is a leaf; if the child is null that read is through a
\* null pointer
Huffman_decompress_body(tree, s, bit) ==
    IF s.ub THEN s
    ELSE LET next == IF bit = 0 THEN s.current.left ELSE s.current.right
         IN  IF next = Null THEN [s EXCEPT !.ub = TRUE]
             ELSE IF IsLeaf(next)
                  THEN [s EXCEPT !.out = Append(s.out, next.data), !.current = tree]
                  ELSE [s EXCEPT !.current = next]

\* the iterations lo..hi of the loop in order (the range is halved to keep the
\* evaluation shallow)
RECURSIVE Huffman_decompress_loop(_, _, _, _, _)
Huffman_decompress_loop(tree, bits, s, lo, hi) ==
    IF lo > hi THEN s
    ELSE IF lo = hi THEN Huffman_decompress_body(tree, s, bits[lo])
    ELSE LET mid == (lo + hi) \div 2
         IN  CHOOSE r \in {Huffman_decompress_loop(tree, bits, half, mid + 1, hi) :
                              half \in {Huffman_decompress_loop(tree, bits, s, lo, mid)}} : TRUE

\* the bits that decompress walks: all of them, or the first original_bits
BitsToWalk_all(payload, original_bits) == BitString(payload)
BitsToWalk(payload, original_bits) ==
    LET bit_string == BitString(payload)
    IN  IF SizePositive(original_bits) /\ SizeLess(original_bits, Len(bit_string))
        THEN SubSeq(bit_string, 1, SizeLow(original_bits))
        ELSE bit_string

\* HuffmanCompressor::decompress and Huffman::decompress (the same code):
\* [out, ub], ub if a null pointer was read through
Huffman_decompress(payload, tree, original_bits) ==
    IF tree = Null \/ payload = <<>> THEN [out |-> <<>>, ub |-> FALSE]
    ELSE LET bits == BitsToWalk(payload, original_bits)
             s == Huffman_decompress_loop(tree, bits,
                      [current |-> tree, out |-> <<>>, ub |-> FALSE], 1, Len(bits))
         IN  [out |-> s.out, ub |-> s.ub]

\* main, the serialize lambda: '1' and the byte for a leaf, '0' and the two
\* subtrees for an inner node (node is not null)
RECURSIVE serialize(_)
serialize(node) ==
    IF IsLeaf(node) THEN <<49, node.data>>
    ELSE <<48>> \o serialize(node.left) \o serialize(node.right)

\* tree_serial[pos] of a std::string, pos counted from 0: the character, or the
\* terminating 0 at pos = size
CharAt(str, pos) == IF pos < Len(str) THEN str[pos + 1] ELSE 0

\* main, the deserialize lambda from position pos: [node, pos, ub], ub if a
\* character beyond the string's terminator was read
RECURSIVE deserialize(_, _)
deserialize(str, pos) ==
    IF pos > Len(str) THEN [node |-> Null, pos |-> pos, ub |-> TRUE]
    ELSE IF CharAt(str, pos) = 49
    THEN IF pos + 1 > Len(str) THEN [node |-> Null, pos |-> pos, ub |-> TRUE]
         ELSE [node |-> LeafNode(CharAt(str, pos + 1), 0), pos |-> pos + 2, ub |-> FALSE]
    ELSE LET l == deserialize(str, pos + 1)
         IN  IF l.ub THEN l
             ELSE LET r == deserialize(str, l.pos)
                  IN  IF r.ub THEN r
                      ELSE [node |-> [InnerNode(0) EXCEPT !.left = l.node, !.right = r.node],
                            pos |-> r.pos, ub |-> FALSE]

\* the number of bits of the encoding: the sum of the code lengths of the bytes
RECURSIVE CompressedBits(_, _)
CompressedBits(table, d) ==
    IF d = <<>> THEN 0 ELSE Len(CodeOf(table, Head(d))) + CompressedBits(table, Tail(d))

\* main, compress branch: the container is the bit length, the tree size, the
\* serialized tree and the packed codes
Container(d, payload, tree) ==
    LET tree_serial == serialize(tree)
        compressed_bits == CompressedBits(generateCodes(tree, <<>>), d)
    IN  SizeT(compressed_bits) \o SizeT(Len(tree_serial)) \o tree_serial \o payload

\* a byte read at index i (from 1) of the file: beyond the end, whatever the
\* memory holds there (g)
ByteAt(file, i, g) == IF i <= Len(file) THEN file[i] ELSE g

\* the header check of the decompress branch
BadMetadata_no_header(tree_size, file) == SizeGeq(tree_size, Len(file))
BadMetadata(tree_size, file) == SizeGeq(SizeAdd(SizeT(16), tree_size), Len(file))

\* std::string(ptr, n) throws std::length_error for n above max_size(), which is
\* below 2^62
ExceedsStringMax(n) == n[8] >= 64

Outcome(st, msg, out, u, o) ==
    [status |-> st, what |-> msg, out |-> out, ub |-> u, oob |-> o]

\* main, decompress branch of "huffman" on the file's bytes; g is what a read
\* beyond the end of a buffer yields
DecompressFile(file, g) ==
    IF Len(file) < 4 THEN Outcome("error", "Invalid Huffman compressed file", <<>>, FALSE, FALSE)
    ELSE
    LET short == Len(file) < 16
        bit_length == [k \in 1..8 |-> ByteAt(file, k, g)]
        tree_size == [k \in 1..8 |-> ByteAt(file, 8 + k, g)]
    IN  IF BadMetadata(tree_size, file)
        THEN Outcome("error", "Invalid Huffman metadata", <<>>, short, short)
        ELSE IF ExceedsStringMax(tree_size)
        THEN Outcome("error", "std::length_error", <<>>, short, short)
        ELSE IF SizeIsHuge(tree_size) \/ 16 + SizeLow(tree_size) > Len(file)
        THEN Outcome("fault", "", <<>>, TRUE, TRUE)
        ELSE
        LET n == SizeLow(tree_size)
            tree_serial == SubSeq(file, 17, 16 + n)
            t == deserialize(tree_serial, 0)
        IN  IF t.ub THEN Outcome("fault", "", <<>>, TRUE, TRUE)
            ELSE LET d == Huffman_decompress(SubSeq(file, 17 + n, Len(file)), t.node, bit_length)
                 IN  IF d.ub THEN Outcome("fault", "", <<>>, TRUE, short)
                     ELSE Outcome("ok", "", d.out, short, short)

-----------------------------------------------------------------------------
(* Huffman coding: the runs.                                                *)

HuffClasses == {"HuffmanCompressor", "Huffman"}

\* what a read beyond the end of a buffer may yield
Garbage == {0, 255}

(* The inputs: every buffer of at most MaxHuffLen bytes over three byte      *)
(* values ('a', 'b' and '1', the character the container marks a leaf with), *)
(* ten times 0x41, and a buffer whose codes fill more than one byte.         *)
MaxHuffLen == 4
HuffAlphabet == {97, 98, 49}
HuffInputs ==
    SeqsUpTo(HuffAlphabet, MaxHuffLen) \cup {Rep(10, 65), <<97, 98, 49, 49, 98, 97, 97>>}

InitHuffman ==
    /\ cls \in HuffClasses
    /\ pc = "start"
    /\ data \in HuffInputs
    /\ compressed = <<>>
    /\ decompressed = <<>>
    /\ status = "ok"
    /\ what = ""
    /\ ub = FALSE
    /\ oob = FALSE
    /\ NoHuffman
    /\ NoLZW

\* compress up to the filled priority queue; an empty buffer returns at once
\* with no payload and a null tree
HuffmanStart ==
    /\ cls \in HuffClasses
    /\ pc = "start"
    /\ IF data = <<>>
       THEN /\ pq' = {}
            /\ root' = Null
            /\ pc' = "compressed"
       ELSE /\ pq' = {LeafNode(b, Frequency(data)[b]) : b \in DOMAIN Frequency(data)}
            /\ root' = root
            /\ pc' = "building"
    /\ UNCHANGED <<orig_bits, intree, cls, data, compressed, decompressed, status, faultVars, codes, raw,
                   lzwVars>>

\* compress, one iteration of while (pq.size() > 1)
HuffmanMerge ==
    /\ pc = "building"
    /\ Cardinality(pq) > 1
    /\ \E left \in Tops(pq) :
         \E right \in Tops(pq \ {left}) :
            pq' = (pq \ {left, right}) \cup {Merged(left, right)}
    /\ UNCHANGED <<orig_bits, intree, cls, pc, data, compressed, decompressed, status, faultVars,
                   root, codes, raw, lzwVars>>

\* compress from root = pq.top() on: the code table, the bits, the packed bytes
HuffmanEncode ==
    /\ pc = "building"
    /\ Cardinality(pq) = 1
    /\ \E top \in pq :
         /\ root' = top
         /\ codes' = generateCodes(top, <<>>)
         /\ compressed' = PackBits(Encoded(generateCodes(top, <<>>), data))
    /\ pc' = "compressed"
    /\ UNCHANGED <<orig_bits, intree, cls, data, decompressed, status, faultVars, pq, raw, lzwVars>>

\* main, "huffman" compress branch after compress returns: serialize(tree)
\* reads tree->left, which for the null tree of an empty input is a read
\* through a null pointer
HuffmanWriteContainer ==
    /\ cls = "HuffmanCompressor"
    /\ pc = "compressed"
    /\ IF root = Null
       THEN /\ status' = "fault"
            /\ ub' = TRUE
            /\ raw' = raw
            /\ pc' = "done"
       ELSE /\ status' = status
            /\ ub' = ub
            /\ raw' = Container(data, compressed, root)
            /\ pc' = "written"
    /\ UNCHANGED <<orig_bits, intree, cls, data, compressed, decompressed, what, oob, pq, root, codes,
                   lzwVars>>

\* main, "huffman" decompress branch on the container file; a run that has
\* executed undefined behaviour may also crash
HuffmanReadContainer ==
    /\ cls = "HuffmanCompressor"
    /\ pc = "written"
    /\ \E g \in Garbage :
         LET r == DecompressFile(raw, g)
         IN  \E crash \in (IF r.ub THEN {TRUE, FALSE} ELSE {FALSE}) :
                /\ status' = IF crash THEN "fault" ELSE r.status
                /\ what' = IF crash THEN "" ELSE r.what
                /\ decompressed' = IF crash THEN <<>> ELSE r.out
                /\ ub' = r.ub
                /\ oob' = r.oob
    /\ pc' = "done"
    /\ UNCHANGED <<orig_bits, intree, cls, data, compressed, pq, root, codes, raw, lzwVars>>

\* class Huffman has no container: decompress gets the payload and the tree
\* of compress and the number of bits of the encoding
HuffmanDirectDecompress ==
    /\ cls = "Huffman"
    /\ pc = "compressed"
    /\ LET r == Huffman_decompress(compressed, root,
                    SizeT(CompressedBits(generateCodes(root, <<>>), data)))
       IN  /\ status' = IF r.ub THEN "fault" ELSE "ok"
           /\ decompressed' = IF r.ub THEN <<>> ELSE r.out
           /\ ub' = r.ub
    /\ pc' = "done"
    /\ UNCHANGED <<orig_bits, intree, cls, data, compressed, what, oob, pq, root, codes, raw,
                   lzwVars>>

NextHuffman ==
    \/ HuffmanStart
    \/ HuffmanMerge
    \/ HuffmanEncode
    \/ HuffmanWriteContainer
    \/ HuffmanReadContainer
    \/ HuffmanDirectDecompress

SpecHuffman == InitHuffman /\ [][NextHuffman]_vars

(* Container files as they may come from disk: whole headers with every    *)
(* body of at most MaxBody bytes, and files cut inside the header.          *)
MaxBody == 3
BodyBytes == {48, 49, 97}
BigSizes ==
    { <<240, 255, 255, 255, 255, 255, 255, 255>>,   \* 2^64 - 16
      <<255, 255, 255, 255, 255, 255, 255, 255>>,   \* 2^64 - 1
      <<239, 255, 255, 255, 255, 255, 255, 255>>,   \* 2^64 - 17
      <<0, 0, 0, 0, 0, 0, 0, 128>>,                 \* 2^63
      <<0, 0, 0, 0, 0, 0, 0, 64>>,                  \* 2^62
      <<0, 0, 0, 0, 1, 0, 0, 0>> }                  \* 2^32
TreeSizes == {SizeT(n) : n \in 0..(MaxBody + 1)} \cup BigSizes
BitLengths == {SizeT(0), SizeT(3)}

ContainerFiles ==
    {b \o t \o body : b \in BitLengths, t \in TreeSizes, body \in SeqsUpTo(BodyBytes, MaxBody)}
        \cup {SubSeq(SizeT(3) \o t, 1, n) : t \in TreeSizes, n \in 0..15}

InitContainer ==
    /\ cls = "HuffmanCompressor"
    /\ pc = "written"
    /\ raw \in ContainerFiles
    /\ data = <<>>
    /\ compressed = <<>>
    /\ decompressed = <<>>
    /\ status = "ok"
    /\ what = ""
    /\ ub = FALSE
    /\ oob = FALSE
    /\ pq = {} /\ orig_bits = 0 /\ intree = <<>>
    /\ root = <<>>
    /\ codes = <<>>
    /\ NoLZW

NextContainer == HuffmanReadContainer

SpecContainer == InitContainer /\ [][NextContainer]_vars

(* Direct calls decompress(compressed, root, original_bits) with arguments  *)
(* that need not come from compress: the trees for the codes 0, 1 and       *)
(* 0, 10, 11, every payload of at most MaxPayload bytes and every bit count *)
(* up to one more than the payload has.                                      *)
MaxPayload == 1
PayloadBytes == {0, 176, 255}
Node(l, r) == [InnerNode(0) EXCEPT !.left = l, !.right = r]
DecodeTrees ==
    {Node(LeafNode(97, 0), LeafNode(98, 0)),
     Node(LeafNode(97, 0), Node(LeafNode(98, 0), LeafNode(99, 0)))}

InitDecode ==
    /\ cls \in HuffClasses
    /\ pc = "decode"
    /\ root \in DecodeTrees
    /\ compressed \in SeqsUpTo(PayloadBytes, MaxPayload)
    /\ orig_bits \in 0..(8 * MaxPayload + 1)
    /\ data = <<>>
    /\ decompressed = <<>>
    /\ status = "ok"
    /\ what = ""
    /\ ub = FALSE
    /\ oob = FALSE
    /\ pq = {} /\ codes = <<>> /\ raw = <<>> /\ intree = <<>>
    /\ NoLZW

\* one call of decompress; the code has no throw, so it ends with a result or
\* with a read through a null pointer
HuffmanDecode ==
    /\ cls \in HuffClasses
    /\ pc = "decode"
    /\ LET r == Huffman_decompress(compressed, root, SizeT(orig_bits))
       IN  /\ status' = IF r.ub THEN "fault" ELSE "ok"
           /\ decompressed' = IF r.ub THEN <<>> ELSE r.out
           /\ ub' = r.ub
    /\ pc' = "done"
    /\ UNCHANGED <<cls, data, compressed, what, oob, huffVars, lzwVars>>

NextDecode == HuffmanDecode

SpecDecode == InitDecode /\ [][NextDecode]_vars

-----------------------------------------------------------------------------
(* LZW coding.  The code is the same for every width of a byte: with w bits *)
(* to a byte the alphabet is 0..2^w - 1, the first free code is 2^w and a   *)
(* code (uint16_t, two bytes) has 2w bits.  The program has w = 8.  The     *)
(* variable W holds the width of the run.                                   *)

\* the values of a byte: 0..255
ByteValues(w) == 0..(2 ^ w - 1)

\* next_code = 256, dict_size = 256
FirstCode_low(w) == 2 ^ w - 1
FirstCode(w) == 2 ^ w

\* the bound in next_code < 65535
CodeLimit(w) == 2 ^ (2 * w) - 1

\* the dictionary compress starts with: every one-byte string, coded by its byte
InitialCodes(w) == [s \in {<<b>> : b \in ByteValues(w)} |-> s[1]]

\* the dictionary decompress starts with
InitialStrings(w) == [c \in ByteValues(w) |-> <<c>>]

\* dictionary[key] = value
Put(dict, key, value) ==
    [k \in (DOMAIN dict) \cup {key} |-> IF k = key THEN value ELSE dict[k]]

\* whether compress adds the new string: LZWCompressor only below the limit,
\* class LZW always
MayGrow(c, next, w) == c = "LZW" \/ next < CodeLimit(w)

\* current after a code was written: the byte just read
Restart_empty(byte) == <<>>
Restart(byte) == <<byte>>

\* s[0] of a std::string: the first character, the terminating 0 if s is empty
Char0(s) == IF s = <<>> THEN 0 ELSE s[1]

\* decompress, code == next_code: previous + previous[0]
SelfEntry_same(previous) == previous
SelfEntry(previous) == Append(previous, Char0(previous))

\* class LZW, compress: every code as two bytes, the low one first
CodeBytes(cs, w) ==
    [k \in 1..(2 * Len(cs)) |->
        IF k % 2 = 1 THEN cs[(k + 1) \div 2] % (2 ^ w)
        ELSE (cs[k \div 2] \div (2 ^ w)) % (2 ^ w)]

\* class LZW, decompress: data[i] | (data[i + 1] << 8) for every pair of bytes
ParseCodes(bytes, w) ==
    [k \in 1..(Len(bytes) \div 2) |-> bytes[2 * k - 1] + bytes[2 * k] * (2 ^ w)]

LZWClasses == {"LZWCompressor", "LZW"}

\* the codes decompress reads: the vector itself, or class LZW's parsed codes
CodesToRead == IF cls = "LZW" THEN lzwcodes ELSE compressed

\* the codes compress has written so far
CodesWritten == IF cls = "LZW" THEN lzwcodes ELSE compressed

\* compress: the dictionary is filled, current is empty
LZWCompressStart ==
    /\ cls \in LZWClasses
    /\ pc = "start"
    /\ dictionary' = InitialCodes(W)
    /\ next_code' = FirstCode(W)
    /\ current' = <<>>
    /\ idx' = 1
    /\ pc' = "compressing"
    /\ UNCHANGED <<cls, data, compressed, decompressed, status, faultVars, huffVars,
                   W, lzwcodes, branch>>

\* compress: one iteration of the loop over the bytes of data
LZWCompressStep ==
    /\ pc = "compressing"
    /\ idx <= Len(data)
    /\ LET byte == data[idx]
           combined == Append(current, byte)
       IN  IF combined \in DOMAIN dictionary
           THEN /\ current' = combined
                /\ UNCHANGED <<dictionary, next_code, compressed, lzwcodes>>
           ELSE /\ IF cls = "LZW"
                   THEN /\ lzwcodes' = Append(lzwcodes, dictionary[current])
                        /\ compressed' = compressed
                   ELSE /\ compressed' = Append(compressed, dictionary[current])
                        /\ lzwcodes' = lzwcodes
                /\ IF MayGrow(cls, next_code, W)
                   THEN /\ dictionary' = Put(dictionary, combined, next_code)
                        /\ next_code' = next_code + 1
                   ELSE UNCHANGED <<dictionary, next_code>>
                /\ current' = Restart(byte)
    /\ idx' = idx + 1
    /\ UNCHANGED <<cls, pc, data, decompressed, status, faultVars, huffVars, W, branch>>

\* compress after the loop: the code of a non-empty current is written; class
\* LZW then turns its codes into bytes
LZWCompressFinish ==
    /\ pc = "compressing"
    /\ idx > Len(data)
    /\ LET written == IF current # <<>> THEN Append(CodesWritten, dictionary[current])
                      ELSE CodesWritten
       IN  IF cls = "LZW"
           THEN /\ lzwcodes' = written
                /\ compressed' = CodeBytes(written, W)
           ELSE /\ compressed' = written
                /\ lzwcodes' = lzwcodes
    /\ pc' = "compressed"
    /\ UNCHANGED <<cls, data, decompressed, status, faultVars, huffVars,
                   W, dictionary, next_code, current, idx, branch>>

\* decompress up to its loop.  LZWCompressor: the dictionary is filled and
\* previous is empty.  Class LZW: a stream of odd length or without codes
\* returns empty; else the first code is looked up with dictionary[codes[0]]
\* (which enters an empty string for an unknown code) and written out
LZWDecompressStart ==
    /\ cls \in LZWClasses
    /\ pc = "compressed"
    /\ IF cls = "LZWCompressor"
       THEN /\ dictionary' = InitialStrings(W)
            /\ current' = <<>>
            /\ decompressed' = <<>>
            /\ idx' = 1
            /\ lzwcodes' = lzwcodes
            /\ pc' = "decompressing"
       ELSE IF Len(compressed) % 2 # 0 \/ compressed = <<>>
       THEN /\ decompressed' = <<>>
            /\ dictionary' = InitialStrings(W)
            /\ lzwcodes' = ParseCodes(compressed, W)
            /\ pc' = "done"
            /\ UNCHANGED <<current, idx>>
       ELSE LET cs == ParseCodes(compressed, W)
                dict == IF cs[1] \in DOMAIN InitialStrings(W) THEN InitialStrings(W)
                        ELSE Put(InitialStrings(W), cs[1], <<>>)
            IN  /\ lzwcodes' = cs
                /\ dictionary' = dict
                /\ current' = dict[cs[1]]
                /\ decompressed' = dict[cs[1]]
                /\ idx' = 2
                /\ pc' = "decompressing"
    /\ next_code' = FirstCode(W)
    /\ UNCHANGED <<cls, data, compressed, status, faultVars, huffVars, W, branch>>

\* decompress: one iteration of the loop over the codes.  An unknown code that
\* is not next_code throws in LZWCompressor (main reports it and writes no
\* output) and makes class LZW return the empty vector
LZWDecompressStep ==
    /\ pc = "decompressing"
    /\ idx <= Len(CodesToRead)
    /\ LET code == CodesToRead[idx]
           known == code \in DOMAIN dictionary
           entry == IF known THEN dictionary[code] ELSE SelfEntry(current)
       IN  IF ~known /\ code # next_code
           THEN /\ branch' = "invalid"
                /\ decompressed' = <<>>
                /\ status' = IF cls = "LZWCompressor" THEN "error" ELSE status
                /\ what' = IF cls = "LZWCompressor" THEN "Invalid LZW code" ELSE what
                /\ pc' = "done"
                /\ UNCHANGED <<dictionary, next_code, current, idx>>
           ELSE /\ branch' = IF known THEN "known" ELSE "next"
                /\ decompressed' = decompressed \o entry
                /\ IF cls = "LZWCompressor"
                   THEN IF current # <<>> /\ next_code < CodeLimit(W)
                        THEN /\ dictionary' = Put(dictionary, next_code,
                                                  Append(current, Char0(entry)))
                             /\ next_code' = next_code + 1
                        ELSE UNCHANGED <<dictionary, next_code>>
                   ELSE /\ dictionary' = Put(dictionary, next_code,
                                             Append(current, Char0(entry)))
                        /\ next_code' = next_code + 1
                /\ current' = entry
                /\ idx' = idx + 1
                /\ UNCHANGED <<status, what, pc>>
    /\ UNCHANGED <<cls, data, compressed, ub, oob, huffVars, W, lzwcodes>>

\* decompress returns after the last code
LZWDecompressFinish ==
    /\ pc = "decompressing"
    /\ idx > Len(CodesToRead)
    /\ pc' = "done"
    /\ UNCHANGED <<cls, data, compressed, decompressed, status, faultVars, huffVars, lzwVars>>

NextLZW ==
    \/ LZWCompressStart
    \/ LZWCompressStep
    \/ LZWCompressFinish
    \/ LZWDecompressStart
    \/ LZWDecompressStep
    \/ LZWDecompressFinish

(* The inputs of the LZW runs with 8-bit bytes: every buffer of at most      *)
(* MaxLZWLen bytes over 'a' and 'b', the classic example, and a run of 300   *)
(* equal bytes.                                                              *)
MaxLZWLen == 5
LZWAlphabet == {97, 98}
TOBEORNOT ==
    <<84, 79, 66, 69, 79, 82, 78, 79, 84, 84, 79, 66, 69, 79, 82, 84, 79, 66, 69, 79, 82,
      78, 79, 84>>
LZWInputs == SeqsUpTo(LZWAlphabet, MaxLZWLen) \cup {TOBEORNOT, Rep(300, 97)}

LZWIdle ==
    /\ pc = "start"
    /\ compressed = <<>>
    /\ decompressed = <<>>
    /\ status = "ok"
    /\ what = ""
    /\ ub = FALSE
    /\ oob = FALSE
    /\ NoHuffman
    /\ dictionary = <<>> /\ next_code = 0 /\ current = <<>>
    /\ idx = 0 /\ lzwcodes = <<>> /\ branch = ""

InitLZW ==
    /\ cls \in LZWClasses
    /\ W = 8
    /\ data \in LZWInputs
    /\ LZWIdle

SpecLZW == InitLZW /\ [][NextLZW]_vars

(* Runs of decompress on code streams that need not come from compress:     *)
(* every stream of at most MaxStreamLen codes over known bytes, the first    *)
(* free codes and a code far beyond them; class LZW gets the stream as       *)
(* bytes.                                                                    *)
MaxStreamLen == 3
StreamCodes == {97, 98, 256, 257, 258, 300}
Streams == SeqsUpTo(StreamCodes, MaxStreamLen)

InitStream ==
    /\ cls \in LZWClasses
    /\ W = 8
    /\ data = <<>>
    /\ pc = "compressed"
    /\ \E cs \in Streams : compressed = IF cls = "LZW" THEN CodeBytes(cs, W) ELSE cs
    /\ decompressed = <<>>
    /\ status = "ok"
    /\ what = ""
    /\ ub = FALSE
    /\ oob = FALSE
    /\ NoHuffman
    /\ dictionary = <<>> /\ next_code = 0 /\ current = <<>>
    /\ idx = 0 /\ lzwcodes = <<>> /\ branch = ""

NextStream ==
    \/ LZWDecompressStart
    \/ LZWDecompressStep
    \/ LZWDecompressFinish

SpecStream == InitStream /\ [][NextStream]_vars

(* Runs that fill the code space.  With 8-bit bytes that takes more than     *)
(* 65,000 dictionary entries; the same code with 2-bit bytes (alphabet 0..3, *)
(* first code 4, 4-bit codes, limit 15) fills it after 11 entries.  The      *)
(* inputs start with a buffer in which every pair of neighbours is new, so   *)
(* that each byte adds an entry, followed by every tail of at most           *)
(* MaxSatTail bytes.                                                         *)
MaxSatTail == 3
SatHead == <<0, 0, 1, 0, 2, 0, 3, 1, 1, 2, 1, 3, 2, 2, 3, 3, 0>>
SatInputs == {SatHead \o tail : tail \in SeqsUpTo(ByteValues(2), MaxSatTail)}

InitSat ==
    /\ cls \in LZWClasses
    /\ W = 2
    /\ data \in SatInputs
    /\ LZWIdle

SpecSat == InitSat /\ [][NextLZW]_vars

-----------------------------------------------------------------------------
(* The tree codec of huffman.hpp: a null pointer is the byte 0, a leaf the  *)
(* byte 1 and its data byte, an internal node the byte 2 and its two        *)
(* subtrees.                                                                *)

RECURSIVE serializeTree(_)
serializeTree(node) ==
    IF node = Null THEN <<0>>
    ELSE IF IsLeaf(node) THEN <<1, node.data>>
    ELSE <<2>> \o serializeTree(node.left) \o serializeTree(node.right)

\* deserializeTree(data, offset): [node, offset, err], err the message of the
\* exception thrown, "" if the call returns
RECURSIVE deserializeTree(_, _)
deserializeTree(bytes, offset) ==
    IF offset >= Len(bytes) THEN [node |-> Null, offset |-> offset, err |-> ""]
    ELSE LET marker == bytes[offset + 1]
         IN  IF marker = 0 THEN [node |-> Null, offset |-> offset + 1, err |-> ""]
             ELSE IF marker = 1
             THEN IF offset + 1 >= Len(bytes)
                  THEN [node |-> Null, offset |-> offset + 1, err |-> "Corrupted tree data"]
                  ELSE [node |-> LeafNode(bytes[offset + 2], 0), offset |-> offset + 2,
                        err |-> ""]
             ELSE IF marker = 2
             THEN LET l == deserializeTree(bytes, offset + 1)
                  IN  IF l.err # "" THEN l
                      ELSE LET r == deserializeTree(bytes, l.offset)
                           IN  IF r.err # "" THEN r
                               ELSE [node |-> [InnerNode(0) EXCEPT !.left = l.node,
                                                                   !.right = r.node],
                                     offset |-> r.offset, err |-> ""]
             ELSE [node |-> Null, offset |-> offset + 1, err |-> "Invalid tree marker"]

(* The runs of the tree codec: every byte sequence of at most MaxTreeLen    *)
(* bytes over the three markers, a byte that is no marker and a data byte   *)
(* is deserialized from offset 0; root and idx hold the pair returned.      *)
MaxTreeLen == 4
TreeByteValues == {0, 1, 2, 3, 65}
TreeInputs == SeqsUpTo(TreeByteValues, MaxTreeLen)

InitTree ==
    /\ cls = "deserializeTree"
    /\ pc = "start"
    /\ raw \in TreeInputs
    /\ data = <<>>
    /\ compressed = <<>>
    /\ decompressed = <<>>
    /\ status = "ok"
    /\ what = ""
    /\ ub = FALSE
    /\ oob = FALSE
    /\ pq = {} /\ root = Null /\ codes = <<>> /\ orig_bits = 0 /\ intree = <<>>
    /\ NoLZW

\* one call deserializeTree(raw, 0)
DeserializeTree ==
    /\ cls = "deserializeTree"
    /\ pc = "start"
    /\ LET r == deserializeTree(raw, 0)
       IN  IF r.err # ""
           THEN /\ status' = "error"
                /\ what' = r.err
                /\ UNCHANGED <<root, idx>>
           ELSE /\ root' = r.node
                /\ idx' = r.offset
                /\ UNCHANGED <<status, what>>
    /\ pc' = "done"
    /\ UNCHANGED <<orig_bits, intree, cls, data, compressed, decompressed, ub, oob, pq, codes, raw,
                   W, dictionary, next_code, current, lzwcodes, branch>>

NextTree == DeserializeTree

SpecTree == InitTree /\ [][NextTree]_vars

(* Runs of the two tree codecs on trees as compress builds them: every tree *)
(* of at most MaxDepth levels of inner nodes over leaves whose bytes look   *)
(* like markers, and the null tree.  cls names the codec by its reader:     *)
(* "deserializeTree" is the pair of huffman.hpp, "deserialize" the pair of  *)
(* lambdas in main.                                                         *)
MaxDepth == 2
LeafBytes == {1, 49}

RECURSIVE TreesOfDepth(_)
TreesOfDepth(k) ==
    IF k = 0 THEN {LeafNode(b, 1) : b \in LeafBytes}
    ELSE LET below == TreesOfDepth(k - 1)
         IN  below \cup {Merged(l, r) : l \in below, r \in below}

CodecClasses == {"deserializeTree", "deserialize"}

InitCodec ==
    /\ cls \in CodecClasses
    /\ pc = "tree"
    /\ intree \in TreesOfDepth(MaxDepth) \cup {Null}
    /\ raw = <<>>
    /\ data = <<>>
    /\ compressed = <<>>
    /\ decompressed = <<>>
    /\ status = "ok"
    /\ what = ""
    /\ ub = FALSE
    /\ oob = FALSE
    /\ pq = {} /\ root = Null /\ codes = <<>> /\ orig_bits = 0
    /\ NoLZW

\* serializeTree(intree), or main's serialize(intree), which reads through the
\* pointer it is given
SerializeTree ==
    /\ cls \in CodecClasses
    /\ pc = "tree"
    /\ IF cls = "deserialize" /\ intree = Null
       THEN /\ status' = "fault"
            /\ ub' = TRUE
            /\ raw' = raw
            /\ pc' = "done"
       ELSE /\ raw' = IF cls = "deserialize" THEN serialize(intree) ELSE serializeTree(intree)
            /\ pc' = "start"
            /\ UNCHANGED <<status, ub>>
    /\ UNCHANGED <<cls, data, compressed, decompressed, what, oob, pq, root, codes,
                   orig_bits, intree, lzwVars>>

\* main: size_t pos = 0; auto root = deserialize(pos)
MainDeserialize ==
    /\ cls = "deserialize"
    /\ pc = "start"
    /\ LET r == deserialize(raw, 0)
       IN  /\ root' = r.node
           /\ idx' = r.pos
           /\ ub' = r.ub
           /\ oob' = r.ub
    /\ pc' = "done"
    /\ UNCHANGED <<cls, data, compressed, decompressed, status, what, pq, codes, raw,
                   orig_bits, intree, W, dictionary, next_code, current, lzwcodes, branch>>

NextCodec ==
    \/ SerializeTree
    \/ DeserializeTree
    \/ MainDeserialize

SpecCodec == InitCodec /\ [][NextCodec]_vars

-----------------------------------------------------------------------------
(* Properties of run-length coding (checked under SpecRLE).                 *)

\* the maximal run that starts at position s ends at the first position whose
\* successor differs (or at the end of the buffer)
RunEnd(d, s) ==
    CHOOSE e \in s..Len(d) :
        /\ (e = Len(d) \/ d[e + 1] # d[e])
        /\ \A k \in s..(e - 1) : d[k + 1] = d[k]

\* a maximal run of n bytes v in pairs: n \div 255 full pairs, then the rest
CappedPairs(n, v) ==
    [k \in 1..(2 * (n \div 255)) |-> IF k % 2 = 1 THEN 255 ELSE v]
        \o (IF n % 255 # 0 THEN <<n % 255, v>> ELSE <<>>)

RECURSIVE ExpectedPairs(_, _)
ExpectedPairs(d, s) ==
    IF s > Len(d) THEN <<>>
    ELSE LET e == RunEnd(d, s)
         IN  CappedPairs(e - s + 1, d[s]) \o ExpectedPairs(d, e + 1)

\* C1: RLE round trip: decompress(compress(x)) = x for every buffer x, in
\* class RLE and in class RLECompressor (empty buffer, single byte and runs
\* longer than 255 included).
C1_RLERoundTrip ==
    (cls \in RLEClasses /\ pc = "done") => decompressed = data

\* a run of 300 equal bytes went through compress and decompress of RLECompressor
C1_Witness ==
    /\ cls = "RLECompressor" /\ pc = "done"
    /\ data = Rep(300, 170)
    /\ Len(compressed) = 4
    /\ decompressed = data

\* C8: RLE compress writes, in input order, one (count, value) pair per run,
\* 1 <= count <= 255, a maximal run of L bytes as L div 255 pairs of count 255
\* and then one pair of count L mod 255 if that is not 0; 300 times 0xAA gives
\* (255,0xAA),(45,0xAA) and the empty buffer gives the empty output.
C8_RLERunCapping ==
    (cls \in RLEClasses /\ pc # "start") =>
        /\ compressed = ExpectedPairs(data, 1)
        /\ \A k \in 1..Len(compressed) :
               k % 2 = 1 => (1 <= compressed[k] /\ compressed[k] <= 255)
        /\ (data = Rep(300, 170) => compressed = <<255, 170, 45, 170>>)
        /\ (data = <<>> => compressed = <<>>)

\* RLECompressor has compressed a buffer with a long run followed by another run
C8_Witness ==
    /\ cls = "RLECompressor" /\ pc = "compressed"
    /\ data = Rep(300, 170) \o Rep(2, 65)
    /\ compressed = <<255, 170, 45, 170, 2, 65>>

-----------------------------------------------------------------------------
(* Properties of Huffman coding (checked under SpecHuffman).                *)

\* the buffer holds one byte value only, at least once
SingleSymbol(d) == d # <<>> /\ \A i \in 1..Len(d) : d[i] = d[1]

\* C2: Huffman container round trip: for every buffer x, the empty one and
\* those of a single byte value included, writing the container for x and then
\* parsing and decompressing it completes without fault and returns x.
C2_ContainerRoundTrip ==
    (cls = "HuffmanCompressor" /\ pc = "done") =>
        (status = "ok" /\ ~ub /\ decompressed = data)

\* C4: for n >= 1 copies of one byte b, compress yields the single leaf b and
\* a bit length of n, and decompress returns the n copies without following a
\* child link of the root (no null child is read through).
C4_SingleSymbol ==
    (cls \in HuffClasses /\ SingleSymbol(data)) =>
        /\ pc \in {"compressed", "written", "done"} =>
               /\ root = LeafNode(data[1], Len(data))
               /\ CompressedBits(generateCodes(root, <<>>), data) = Len(data)
        /\ pc = "done" => (~ub /\ status = "ok" /\ decompressed = data)

\* C5 as stated: for the input a,a,a,b the code of 'a' (frequency 3) is
\* strictly shorter than the code of 'b' (frequency 1).
C5_StrictlyShorter ==
    (cls \in HuffClasses /\ data = <<97, 97, 97, 98>> /\ pc \in {"compressed", "written", "done"}) =>
        Len(codes[97]) < Len(codes[98])

\* C5 as amended: for the input a,a,a,b the code of 'a' is not longer than the
\* code of 'b'; with two symbols both codes are one bit, 'b' (popped first,
\* the left child) gets 0 and 'a' gets 1.
C5_NotLonger ==
    (cls \in HuffClasses /\ data = <<97, 97, 97, 98>> /\ pc \in {"compressed", "written", "done"}) =>
        /\ Len(codes[97]) <= Len(codes[98])
        /\ codes[98] = <<0>>
        /\ codes[97] = <<1>>

\* compress has built the code table for a,a,a,b
C5_Witness ==
    /\ cls = "HuffmanCompressor" /\ pc = "compressed"
    /\ data = <<97, 97, 97, 98>>
    /\ DOMAIN codes = {97, 98}
    /\ compressed = <<224>>

-----------------------------------------------------------------------------
(* Properties of the container header (checked under SpecContainer).        *)

\* the tree size the header of a file of at least 16 bytes declares
DeclaredTreeSize(file) == SubSeq(file, 9, 16)

\* the declared tree size is larger than what follows the header
TreeSizeExceeds(file) ==
    \/ SizeIsHuge(DeclaredTreeSize(file))
    \/ SizeLow(DeclaredTreeSize(file)) > Len(file) - 16

-----------------------------------------------------------------------------
(* Properties of LZW coding (checked under SpecLZW and SpecSat).             *)

\* C3: for every buffer, the empty one included, whose encoding does not use
\* up the code space, decompress(compress(x)) returns x without error, also
\* when the decoder meets a code equal to its next_code.
C3_LZWRoundTrip ==
    (cls \in LZWClasses /\ pc = "done") => (status = "ok" /\ decompressed = data)

\* "aaa" is coded 97, 256: the decoder met 256 when its next_code was 256
C3_Witness ==
    /\ pc = "done" /\ data = <<97, 97, 97>> /\ CodesToRead = <<97, 256>>
    /\ branch = "next" /\ decompressed = data

\* the longest prefix of rest that is in the dictionary
LongestKnown(rest, known) ==
    CHOOSE n \in 1..Len(rest) :
        /\ SubSeq(rest, 1, n) \in DOMAIN known
        /\ \A m \in (n + 1)..Len(rest) : SubSeq(rest, 1, m) \notin DOMAIN known

\* the textbook rule: write the code of the longest known prefix of what is
\* left, give that prefix with the byte after it the next code, go on behind
\* the prefix
RECURSIVE GreedyCodes(_, _, _)
GreedyCodes(rest, known, next) ==
    IF rest = <<>> THEN <<>>
    ELSE LET n == LongestKnown(rest, known)
         IN  IF n = Len(rest) THEN <<known[rest]>>
             ELSE <<known[SubSeq(rest, 1, n)]>> \o
                  GreedyCodes(SubSeq(rest, n + 1, Len(rest)),
                              Put(known, SubSeq(rest, 1, n + 1), next), next + 1)

TOBEORNOTCodes == <<84, 79, 66, 69, 79, 82, 78, 79, 84, 256, 258, 260, 265, 259, 261, 263>>

\* C9: the codes compress writes are those of the longest-known-prefix rule
\* with every prefix extended by its next byte defined as the next code; for
\* "TOBEORNOTTOBEORTOBEORNOT" they are 84,79,66,69,79,82,78,79,84,256,258,
\* 260,265,259,261,263 in every run of both classes.
C9_LZWEncodingRule ==
    (cls \in LZWClasses /\ pc = "compressed") =>
        /\ CodesWritten = GreedyCodes(data, InitialCodes(W), FirstCode(W))
        /\ (data = TOBEORNOT => CodesWritten = TOBEORNOTCodes)

\* the classic buffer has been compressed to its sixteen codes
C9_Witness ==
    /\ pc = "compressed" /\ data = TOBEORNOT /\ CodesWritten = TOBEORNOTCodes

\* C7: for an input that uses up the code space, compress ends without error,
\* no dictionary entry gets a code beyond the limit, every code written fits
\* the two bytes of a code, and decompress returns the input.
C7_Saturation ==
    /\ (cls \in LZWClasses /\ pc \in {"compressing", "compressed"}) =>
           /\ status = "ok"
           /\ \A s \in DOMAIN dictionary : dictionary[s] <= CodeLimit(W)
           /\ \A k \in 1..Len(CodesWritten) : CodesWritten[k] \in 0..CodeLimit(W)
    /\ (cls \in LZWClasses /\ pc = "done") => (status = "ok" /\ decompressed = data)

-----------------------------------------------------------------------------
(* Properties of the tree codec (checked under SpecTree).                   *)

\* where the tree starting at pos ends, -1 if a byte that is no marker is met
\* or the bytes end before a leaf's data byte or before a child of an
\* internal node
RECURSIVE TreeEnd(_, _)
TreeEnd(bytes, pos) ==
    IF pos >= Len(bytes) THEN -1
    ELSE IF bytes[pos + 1] = 0 THEN pos + 1
    ELSE IF bytes[pos + 1] = 1 THEN (IF pos + 2 <= Len(bytes) THEN pos + 2 ELSE -1)
    ELSE IF bytes[pos + 1] = 2
    THEN LET l == TreeEnd(bytes, pos + 1)
         IN  IF l = -1 THEN -1 ELSE TreeEnd(bytes, l)
    ELSE -1

CorruptTree(bytes) == bytes # <<>> /\ TreeEnd(bytes, 0) = -1

\* C10: deserializing corrupt tree bytes (a marker outside 0, 1, 2; no data
\* byte after a leaf marker; the bytes ending before both children of an
\* internal node) fails with an error and returns no tree.
C10_RejectsCorruptTree ==
    (cls = "deserializeTree" /\ pc = "done" /\ CorruptTree(raw)) =>
        (status = "error" /\ root = Null)

-----------------------------------------------------------------------------
(* Properties of LZW decoding of arbitrary streams (checked under           *)
(* SpecStream).                                                             *)

\* the codes of the stream handed to decompress
StreamRead == IF cls = "LZW" THEN ParseCodes(compressed, W) ELSE compressed

\* next_code when the k-th code is read: nothing is defined after the first
\* code, one entry after every later one
NextCodeAt(k) == IF k = 1 THEN FirstCode(W) ELSE FirstCode(W) + k - 2

\* some code is, when it is read, neither defined nor equal to next_code
HasInvalidCode(cs) == \E k \in 1..Len(cs) : cs[k] > NextCodeAt(k)

\* C11: decompress of a stream with a code that is neither in the dictionary
\* nor equal to next_code when it is read ends with an error, not with a
\* result.
C11_InvalidCodeIsError ==
    (cls \in LZWClasses /\ pc = "done" /\ HasInvalidCode(StreamRead)) => status = "error"

\* C21: decompress of a stream whose first code is 256 or more (there is no
\* previous string to build an entry from) ends with an error and without
\* any byte written.
C21_FirstCodeIsAByte ==
    (cls \in LZWClasses /\ pc = "done" /\ StreamRead # <<>>
        /\ StreamRead[1] >= FirstCode(W)) =>
        (status = "error" /\ decompressed = <<>>)

-----------------------------------------------------------------------------
(* Properties of direct Huffman decoding (checked under SpecDecode).        *)

\* the code words of a tree
CodeWords(tree) == {generateCodes(tree, <<>>)[b] : b \in DOMAIN generateCodes(tree, <<>>)}

\* bits is a sequence of whole code words
RECURSIVE WholeCodes(_, _)
WholeCodes(bits, words) ==
    \/ bits = <<>>
    \/ \E w \in words :
         /\ Len(w) <= Len(bits)
         /\ SubSeq(bits, 1, Len(w)) = w
         /\ WholeCodes(SubSeq(bits, Len(w) + 1, Len(bits)), words)

\* the bits to decode end inside a code word
EndsInsideCode ==
    /\ compressed # <<>>
    /\ ~WholeCodes(BitsToWalk(compressed, SizeT(orig_bits)), CodeWords(root))

\* C12: when the bits to decode end inside a code word (the walk is at an
\* internal node), decompress ends with an error and not with the bytes
\* decoded so far.
C12_NoPartialResult ==
    (cls \in HuffClasses /\ pc = "done" /\ EndsInsideCode) => status = "error"

-----------------------------------------------------------------------------
(* Properties of run-length decoding of arbitrary streams (checked under    *)
(* SpecRLEStream).                                                          *)

\* the stream without its last byte
WithoutLast(s) == SubSeq(s, 1, Len(s) - 1)

\* C13: for an even-length stream s and a byte b, decompress of s followed by
\* b returns what decompress of s returns, without error, in class RLE and in
\* class RLECompressor.
C13_OddTrailingByteDropped ==
    (cls \in RLEClasses /\ pc = "done" /\ Len(compressed) % 2 = 1) =>
        /\ status = "ok"
        /\ ~ub
        /\ decompressed = IF cls = "RLE" THEN RLE_decompress(WithoutLast(compressed))
                          ELSE RLECompressor_decompress(WithoutLast(compressed))

\* the pair (2, 65) followed by a lone 2 has been decoded to two bytes 65
C13_Witness ==
    /\ pc = "done" /\ compressed = <<2, 65, 2>> /\ decompressed = <<65, 65>>
    /\ status = "ok"

\* C14: the header check rejects a container of at least 16 bytes exactly if
\* 16 + tree_size is larger than the container; a container with
\* 16 + tree_size equal to its length (a tree and no payload) is not rejected.
C14_SizeCheckBoundary ==
    (cls = "HuffmanCompressor" /\ pc = "done" /\ Len(raw) >= 16) =>
        (status = "error" <=> TreeSizeExceeds(raw))

\* C15: a file shorter than the 16-byte header (0 to 15 bytes) is rejected
\* with an error, and neither header field is read beyond the end of the
\* file.
C15_ShortContainerRejected ==
    (cls = "HuffmanCompressor" /\ pc = "done" /\ Len(raw) < 16) =>
        (status = "error" /\ ~oob /\ ~ub)

-----------------------------------------------------------------------------
(* Properties of the Huffman payload (checked under SpecHuffman).           *)

\* the sum of the code lengths of the first n bytes of d
RECURSIVE SumOfCodeLengths(_, _, _)
SumOfCodeLengths(table, d, n) ==
    IF n = 0 THEN 0 ELSE SumOfCodeLengths(table, d, n - 1) + Len(table[d[n]])

\* the codes of the first n bytes of d, one after another
RECURSIVE CodesInOrder(_, _, _)
CodesInOrder(table, d, n) ==
    IF n = 0 THEN <<>> ELSE CodesInOrder(table, d, n - 1) \o table[d[n]]

\* bit k (from 1) of a byte sequence, the most significant bit of a byte first
BitOf(bytes, k) == (bytes[((k - 1) \div 8) + 1] \div (2 ^ (7 - ((k - 1) % 8)))) % 2

\* the payload of a container written by compress
PayloadOf(file) == SubSeq(file, 17 + SizeLow(SubSeq(file, 9, 16)), Len(file))

\* C16: for a non-empty buffer the payload has ceil(n / 8) bytes, n the sum of
\* the code lengths of the bytes; its bits are the codes in order, the most
\* significant bit first, and 0 after bit n; the container stores n as its
\* bit length.
C16_ExactBitLength ==
    (cls \in HuffClasses /\ data # <<>> /\ pc \in {"compressed", "written"}) =>
        LET n == SumOfCodeLengths(codes, data, Len(data))
            bits == CodesInOrder(codes, data, Len(data))
        IN  /\ Len(compressed) = (n + 7) \div 8
            /\ \A k \in 1..(8 * Len(compressed)) :
                   BitOf(compressed, k) = IF k <= n THEN bits[k] ELSE 0
            /\ pc = "written" =>
                   (SubSeq(raw, 1, 8) = SizeT(n) /\ PayloadOf(raw) = compressed)

\* the container of a,a,a,b: 4 bits, 1110 padded to the byte 224
C16_Witness ==
    /\ pc = "written" /\ data = <<97, 97, 97, 98>>
    /\ raw = <<4, 0, 0, 0, 0, 0, 0, 0, 5, 0, 0, 0, 0, 0, 0, 0, 48, 49, 98, 49, 97, 224>>

-----------------------------------------------------------------------------
(* Properties of the tree codecs (checked under SpecCodec).                 *)

\* the format: 0 for no tree, 1 and the byte for a leaf, 2 and the two
\* subtrees for an inner node
RECURSIVE PreOrder(_)
PreOrder(t) ==
    IF t = Null THEN <<0>>
    ELSE IF t.left = Null /\ t.right = Null THEN <<1, t.data>>
    ELSE <<2>> \o PreOrder(t.left) \o PreOrder(t.right)

\* a tree without its frequencies: the shape and the bytes of the leaves
RECURSIVE Shape(_)
Shape(t) ==
    IF t = Null THEN <<>>
    ELSE IF t.left = Null /\ t.right = Null THEN <<"leaf", t.data>>
    ELSE <<"node", Shape(t.left), Shape(t.right)>>

\* C17: a well-formed tree is serialized as the pre-order sequence of the
\* markers 0 (no tree), 1 with the byte (leaf) and 2 with both subtrees
\* (inner node), and deserializing these bytes gives a tree of the same shape
\* and leaf bytes and uses up exactly all of them.
C17_TreeCodecInverse ==
    /\ (cls \in CodecClasses /\ pc \in {"start", "done"}) =>
           (status = "ok" /\ raw = PreOrder(intree))
    /\ (cls \in CodecClasses /\ pc = "done") =>
           (~ub /\ Shape(root) = Shape(intree) /\ idx = Len(raw))

-----------------------------------------------------------------------------
(* The dictionary of one LZW pass (checked under SpecLZW).                  *)

\* compress: the one-byte strings have their bytes as codes, the codes in use
\* are exactly 0..next_code - 1, and no two strings share a code (there are as
\* many codes as strings)
CompressDictionaryOK ==
    /\ \A b \in ByteValues(W) : <<b>> \in DOMAIN dictionary /\ dictionary[<<b>>] = b
    /\ {dictionary[s] : s \in DOMAIN dictionary} = 0..(next_code - 1)
    /\ Cardinality(DOMAIN dictionary) = Cardinality({dictionary[s] : s \in DOMAIN dictionary})
    /\ next_code >= Cardinality(ByteValues(W))

\* decompress: the codes of the bytes have the one-byte strings, and the
\* codes defined are exactly 0..next_code - 1
DecompressDictionaryOK ==
    /\ \A b \in ByteValues(W) : b \in DOMAIN dictionary /\ dictionary[b] = <<b>>
    /\ DOMAIN dictionary = 0..(next_code - 1)
    /\ next_code >= Cardinality(ByteValues(W))

\* one step inside a pass: nothing is defined, or one new key gets the code
\* next_code (in decompress: the key next_code gets a string), next_code goes
\* up by one, and every entry there was stays as it was
DictionaryStep ==
    (pc' = pc /\ pc \in {"compressing", "decompressing"}) =>
        \/ dictionary' = dictionary /\ next_code' = next_code
        \/ /\ next_code' = next_code + 1
           /\ \A k \in DOMAIN dictionary :
                  k \in DOMAIN dictionary' /\ dictionary'[k] = dictionary[k]
           /\ \E k \in DOMAIN dictionary' :
                  /\ DOMAIN dictionary' = DOMAIN dictionary \cup {k}
                  /\ k \notin DOMAIN dictionary
                  /\ IF pc = "compressing" THEN dictionary'[k] = next_code
                     ELSE k = next_code

\* C18: at every step of a compress or decompress pass the codes 0..255 stand
\* for the 256 one-byte strings, every entry added gets the code next_code,
\* which then goes up by one (no gap, no code given twice, no entry changed),
\* and in compress no two strings have the same code.
C18_DictionaryInvariant ==
    /\ [](cls \in LZWClasses =>
            /\ pc \in {"compressing", "compressed"} => CompressDictionaryOK
            /\ pc \in {"decompressing", "done"} => DecompressDictionaryOK)
    /\ [][DictionaryStep]_vars

\* compress has given "aa" the code 256 and "ab" the code 257
C18_Witness ==
    /\ pc = "compressing" /\ next_code = 258
    /\ <<97, 97>> \in DOMAIN dictionary /\ dictionary[<<97, 97>>] = 256
    /\ <<97, 98>> \in DOMAIN dictionary /\ dictionary[<<97, 98>>] = 257

-----------------------------------------------------------------------------
(* Huffman round trip (checked under SpecHuffman, in which the priority     *)
(* queue may yield any of its least-frequent nodes).                        *)

\* the buffer holds at least two different byte values
TwoSymbols(d) == \E i, j \in 1..Len(d) : d[i] # d[j]

\* a is the beginning of b
IsPrefix(a, b) == Len(a) <= Len(b) /\ SubSeq(b, 1, Len(a)) = a

\* no code is the beginning of another one
PrefixFree(table) ==
    \A a, b \in DOMAIN table : a # b => ~IsPrefix(table[a], table[b])

\* C19: for a buffer of two or more different byte values, whatever the order
\* of equal frequencies in the priority queue, the codes are prefix-free and
\* decompress with the payload, the tree and the sum of the code lengths
\* returns the buffer, the padding bits giving no extra symbol.
C19_HuffmanRoundTrip ==
    (cls \in HuffClasses /\ TwoSymbols(data)) =>
        /\ pc \in {"compressed", "written", "done"} =>
               (DOMAIN codes = {data[i] : i \in 1..Len(data)} /\ PrefixFree(codes))
        /\ pc = "done" => (status = "ok" /\ ~ub /\ decompressed = data)

\* a buffer coded in 11 bits, five bits of padding, has been decoded
C19_Witness ==
    /\ pc = "done" /\ data = <<97, 98, 49, 49, 98, 97, 97>>
    /\ Len(compressed) = 2 /\ decompressed = data

-----------------------------------------------------------------------------
(* The trees deserializeTree returns (checked under SpecTree).              *)

\* every node of t has no child or two
RECURSIVE TwoChildren(_)
TwoChildren(t) ==
    \/ t = Null
    \/ t.left = Null /\ t.right = Null
    \/ /\ t.left # Null /\ t.right # Null
       /\ TwoChildren(t.left) /\ TwoChildren(t.right)

\* payloads whose bits lead down every path of a small tree
WalkPayloads == {<<0>>, <<85>>, <<170>>, <<255>>}

\* C20: a tree deserializeTree returns without error has two non-null
\* children at every inner node, and is null only for the bytes of the null
\* tree, so that the walk of decompress over it follows no null child.
C20_DeserializedWellFormed ==
    (cls = "deserializeTree" /\ pc = "done" /\ status = "ok" /\ raw # <<>>) =>
        /\ TwoChildren(root)
        /\ root = Null => raw[1] = 0
        /\ (root # Null /\ ~IsLeaf(root)) =>
               \A payload \in WalkPayloads : ~Huffman_decompress(payload, root, SizeT(0)).ub

=============================================================================
